---- MODULE Spec2Model ----
(***************************************************************************)
(* The visibility-driven lazy-load pipeline of src/js/modules/LazyLoading.js *)
(* as a state machine: the document's lazy elements, the controller's       *)
(* observer, rosters and attempt-counter table, the loads in flight and the *)
(* retry timers.  Time is counted in units of options.retryDelay.           *)
(***************************************************************************)
EXTENDS Integers, Sequences, FiniteSets, TLC

(* ------------------------------ bounds -------------------------------- *)

\* options.retryAttempts ranges over 0..MaxRetry
MaxRetry == 2
\* refresh(), loadNow() and loadAll() are called at most MaxCalls times in a run
MaxCalls == 2
\* the lazyLoaded / lazyError counters saturate at MaxEvents
MaxEvents == 2

(* ------------------------- options (constructor) ---------------------- *)

loadingClass == "lazy-loading"
loadedClass == "lazy-loaded"
errorClass == "lazy-error"
MarkerClasses == {loadingClass, loadedClass, errorClass}
\* the default of options.retryAttempts
DefaultRetryAttempts == 2
\* options.fadeInDuration > 0: onElementLoaded applies the fade-in styles
fadeInDuration == 300

(* ------------------------------ the DOM ------------------------------- *)

\* JavaScript's undefined (an absent attribute, a property a node lacks)
Undef == "undefined"
\* a value that passes `if (v)` / `v || ...`
Truthy(v) == v # Undef /\ v # ""

\* "a" and "b" are in the document from the start; "n" is the lazy element
\* inside the HTML fragment that "a" fetches (when "a" is a fragment).
Elems == {"a", "b", "n"}
TopLevel == {"a", "b"}
Nested == "n"
FragmentHost == "a"

Placeholder == "ph.png"
UrlOf(e) == e \o ".url"
Keys == {Undef, "", Placeholder} \cup {UrlOf(e) : e \in Elems}

\* an element that is not part of the page.  complete stands for
\* img.complete && img.naturalWidth > 0, fade for the inline opacity and
\* transition styles; node tells the nodes apart that successive injections
\* of the same HTML create.
NoElement ==
    [tag |-> "NONE", attached |-> FALSE, src |-> Undef, srcset |-> Undef,
     sizes |-> Undef, dataSrc |-> Undef, dataSrcset |-> Undef,
     dataSizes |-> Undef, dataBg |-> Undef, dataLazy |-> Undef,
     dataPlaceholder |-> Undef, loading |-> Undef, complete |-> FALSE,
     classList |-> {}, backgroundImage |-> "", innerHTML |-> "",
     fade |-> FALSE, node |-> 0]

\* <img data-src=url [loading="lazy"] [data-placeholder] [data-srcset data-sizes]>
Img(url, lazy, ph, set) ==
    [NoElement EXCEPT !.tag = "IMG", !.attached = TRUE, !.src = "",
        !.srcset = "", !.sizes = "", !.dataSrc = url,
        !.loading = IF lazy THEN "lazy" ELSE "eager",
        !.dataPlaceholder = IF ph THEN Placeholder ELSE Undef,
        !.dataSrcset = IF set THEN url \o " 2x" ELSE Undef,
        !.dataSizes = IF set THEN "100vw" ELSE Undef]
\* <img src=url loading="lazy">: an image left to the browser's native lazy loading
NativeImg(url) ==
    [NoElement EXCEPT !.tag = "IMG", !.attached = TRUE, !.src = url,
        !.srcset = "", !.sizes = "", !.loading = "lazy"]
\* <div data-bg=url>
Bg(url) == [NoElement EXCEPT !.tag = "DIV", !.attached = TRUE, !.dataBg = url]
\* <div data-lazy=url>
Frag(url) == [NoElement EXCEPT !.tag = "DIV", !.attached = TRUE, !.dataLazy = url]

\* the element shapes a page may hold for element e: those with
\* loading="lazy", which options.enableNativeLoading bears on, and the others
LazyShapes(e) ==
    {Img(UrlOf(e), TRUE, ph, FALSE) : ph \in BOOLEAN} \cup {NativeImg(UrlOf(e))}
EagerShapes(e) ==
    {Img(UrlOf(e), FALSE, ph, FALSE) : ph \in BOOLEAN}
    \cup {Img(UrlOf(e), FALSE, FALSE, TRUE), Img("", FALSE, FALSE, FALSE),
          Bg(UrlOf(e)), Bg(""), Frag(UrlOf(e)), Frag("")}
Shapes(e) == LazyShapes(e) \cup EagerShapes(e)

VARIABLES
    dom,            \* element -> its DOM state
    nestedHtml,     \* whether the fragment fetched by "a" holds the element "n"
    hasIO,          \* 'IntersectionObserver' in window
    retryAttempts,  \* options.retryAttempts
    enableNativeLoading, \* options.enableNativeLoading
    net,            \* element -> "up" | "down" | "flaky": how its URL answers
    phase,          \* "constructed" | "active" | "destroyed"
    observer,       \* this.observer: "null" | "active"
    observed,       \* the observer's registrations
    images, backgrounds, content,   \* the rosters
    loadAttempts,   \* this.loadAttempts: key -> count (0: no entry)
    loads,          \* element -> loads in flight, by caller
    timers,         \* element -> the remaining delays of its retry timers
    fadeTimers,     \* element -> pending fade clean-up timeouts
    ev,             \* element -> what happened to it (history)
    calls,          \* refresh/loadNow/loadAll calls made so far
    app,            \* the PanOroApp instance of src/js/index.js
    menu,           \* the MobileMenu instance
    modal,          \* the ImageModal instance
    body,           \* document.body.style.overflow
    form,           \* the ContactForm instance
    banner,         \* the BannerRotator instance
    anim,           \* the AnimationObserver instance
    dash            \* the inventory dashboard of src/js/dashboard.js

\* the page's other components
Widgets == <<app, menu, modal, body, form, banner, anim, dash>>

\* the variables of the lazy-load pipeline
Lazy == <<dom, nestedHtml, hasIO, retryAttempts, enableNativeLoading, net,
          phase, observer, observed, images, backgrounds, content,
          loadAttempts, loads, timers, fadeTimers, ev, calls>>

vars == <<Lazy, Widgets>>

(* ----------------------------- helpers -------------------------------- *)

Vias == {"loadElement", "direct"}
LoadKinds == {"image", "background", "content"}
NoLoads == [k \in LoadKinds \X Vias |-> 0]
NoEvents ==
    [starts |-> 0, fails |-> 0, sinceFail |-> 0, lazyLoaded |-> 0,
     lazyError |-> 0, attempts |-> 0]

\* counters of the history saturate
Sat(n, cap) == IF n < cap THEN n + 1 ELSE cap
MaxStarts == MaxRetry + 2

\* document order
DocOrder == <<"a", "n", "b">>
SeqOfSet(S) == SelectSeq(DocOrder, LAMBDA x : x \in S)
FoldSeq(op(_, _), base, seq) ==
    LET it[i \in 0..Len(seq)] == IF i = 0 THEN base ELSE op(it[i - 1], seq[i])
    IN  it[Len(seq)]
\* the sequences without repetition over S, of length 1..|S|
Batches(S) ==
    {q \in UNION {[1..k -> S] : k \in 1..Cardinality(S)} :
        \A i, j \in 1..Len(q) : i # j => q[i] # q[j]}

\* a timer list is kept sorted by remaining delay
TimerInsert(q, d) ==
    LET k == Cardinality({i \in 1..Len(q) : q[i] <= d})
    IN  SubSeq(q, 1, k) \o <<d>> \o SubSeq(q, k + 1, Len(q))

\* the mutable state the handlers work on, as one record
State ==
    [dom |-> dom, observer |-> observer, observed |-> observed,
     loadAttempts |-> loadAttempts, loads |-> loads, timers |-> timers,
     fadeTimers |-> fadeTimers, ev |-> ev]
Commit(s) ==
    /\ dom' = s.dom
    /\ observer' = s.observer
    /\ observed' = s.observed
    /\ loadAttempts' = s.loadAttempts
    /\ loads' = s.loads
    /\ timers' = s.timers
    /\ fadeTimers' = s.fadeTimers
    /\ ev' = s.ev

(* --------------------------- the handlers ----------------------------- *)

\* onElementLoaded(element)
onElementLoaded(s, e) ==
    [s EXCEPT
        !.dom[e].classList = (@ \ {loadingClass}) \cup {loadedClass},
        !.dom[e].fade = IF fadeInDuration > 0 THEN TRUE ELSE @,
        !.fadeTimers[e] = IF fadeInDuration > 0 THEN @ + 1 ELSE @,
        !.ev[e].lazyLoaded = Sat(@, MaxEvents)]

\* const attemptKey = element.src || element.dataset.src || element.dataset.bg
AttemptKey(el) ==
    IF Truthy(el.src) THEN el.src
    ELSE IF Truthy(el.dataSrc) THEN el.dataSrc
    ELSE el.dataBg

\* the comparison off by one: one retry too many
MayRetryInclusive(attempts, max) == attempts <= max
\* if (attempts < this.options.retryAttempts)
MayRetry(attempts, max) == attempts < max

\* handleLoadError(element, error)
handleLoadError(s, e) ==
    LET attemptKey == AttemptKey(s.dom[e])
        attempts == s.loadAttempts[attemptKey]
    IN  IF MayRetry(attempts, retryAttempts)
        THEN [s EXCEPT
                !.loadAttempts[attemptKey] = attempts + 1,
                !.timers[e] = TimerInsert(@, attempts + 1)]
        ELSE [s EXCEPT
                !.dom[e].classList = (@ \ {loadingClass}) \cup {errorClass},
                !.dom[e].src =
                    IF s.dom[e].tag = "IMG" /\ Truthy(s.dom[e].dataPlaceholder)
                    THEN s.dom[e].dataPlaceholder ELSE @,
                !.dom[e].complete =
                    IF s.dom[e].tag = "IMG" /\ Truthy(s.dom[e].dataPlaceholder)
                    THEN FALSE ELSE @,
                !.ev[e].lazyError = Sat(@, MaxEvents),
                !.ev[e].attempts = attempts + 1]

\* the loader is invoked for e: loadElement(e), or a loader called directly
Started(s, e) == [s EXCEPT !.ev[e].starts = Sat(@, MaxStarts)]
\* a preload or a fetch goes out
InFlight(s, e, kind, via) == [s EXCEPT !.loads[e][<<kind, via>>] = @ + 1]

\* the promise a loader returns is rejected: loadElement's catch handles the
\* error; loadAllImmediately's .catch(() => {}) swallows it
Rejected(s, e, via) == IF via = "loadElement" THEN handleLoadError(s, e) ELSE s

\* loadImage(img), up to the start of the preload
loadImage(s, e, via) ==
    LET src == IF Truthy(s.dom[e].dataSrc) THEN s.dom[e].dataSrc ELSE s.dom[e].src
    IN  IF ~Truthy(src) THEN Rejected(s, e, via)
        ELSE InFlight(s, e, "image", via)

\* loadBackground(element), up to the start of the preload
loadBackground(s, e, via) ==
    IF ~Truthy(s.dom[e].dataBg) THEN Rejected(s, e, via)
    ELSE InFlight(s, e, "background", via)

\* loadContent(element), up to the fetch
loadContent(s, e, via) ==
    IF ~Truthy(s.dom[e].dataLazy) THEN onElementLoaded(s, e)
    ELSE InFlight(s, e, "content", via)

\* loadElement(element)
loadElement(s, e) ==
    LET s0 == Started(s, e)
    IN  IF s.dom[e].tag = "IMG" THEN loadImage(s0, e, "loadElement")
        ELSE IF Truthy(s.dom[e].dataBg) THEN loadBackground(s0, e, "loadElement")
        ELSE IF Truthy(s.dom[e].dataLazy) THEN loadContent(s0, e, "loadElement")
        ELSE s0

\* a load of e fails: the loader's own error handler, then the rejection
Failed(s, e, via) ==
    LET s1 == [s EXCEPT !.ev[e].fails = Sat(@, MaxRetry), !.ev[e].sinceFail = 0]
    IN  Rejected(handleLoadError(s1, e), e, via)

\* an onload that applies data-src and leaves the attribute in place
imageOnloadKeepingDataSrc(s, e) ==
    LET el == s.dom[e]
        s1 == [s EXCEPT
                !.dom[e].src = IF Truthy(el.dataSrc) THEN el.dataSrc ELSE @,
                !.dom[e].complete = IF Truthy(el.dataSrc) THEN FALSE ELSE @,
                !.dom[e].srcset = IF Truthy(el.dataSrcset) THEN el.dataSrcset ELSE @,
                !.dom[e].dataSrcset = IF Truthy(el.dataSrcset) THEN Undef ELSE @,
                !.dom[e].sizes = IF Truthy(el.dataSizes) THEN el.dataSizes ELSE @,
                !.dom[e].dataSizes = IF Truthy(el.dataSizes) THEN Undef ELSE @]
    IN  onElementLoaded(s1, e)
\* imageLoader.onload of loadImage
imageOnload(s, e) ==
    LET el == s.dom[e]
        s1 == [s EXCEPT
                !.dom[e].src = IF Truthy(el.dataSrc) THEN el.dataSrc ELSE @,
                !.dom[e].complete = IF Truthy(el.dataSrc) THEN FALSE ELSE @,
                !.dom[e].dataSrc = IF Truthy(el.dataSrc) THEN Undef ELSE @,
                !.dom[e].srcset = IF Truthy(el.dataSrcset) THEN el.dataSrcset ELSE @,
                !.dom[e].dataSrcset = IF Truthy(el.dataSrcset) THEN Undef ELSE @,
                !.dom[e].sizes = IF Truthy(el.dataSizes) THEN el.dataSizes ELSE @,
                !.dom[e].dataSizes = IF Truthy(el.dataSizes) THEN Undef ELSE @]
    IN  onElementLoaded(s1, e)

\* imageLoader.onload of loadBackground (bgUrl was read when the load started)
backgroundOnload(s, e) ==
    onElementLoaded(
        [s EXCEPT !.dom[e].backgroundImage = "url(" \o UrlOf(e) \o ")",
                  !.dom[e].dataBg = Undef], e)

\* processNewContent(container): the lazy elements inside container
Inside(s, e) ==
    IF e = FragmentHost /\ s.dom[Nested].attached /\ s.dom[e].innerHTML = "html"
    THEN {Nested} ELSE {}
Matches(el) ==
    \/ el.tag = "IMG" /\ (el.loading = "lazy" \/ el.dataSrc # Undef)
    \/ el.dataBg # Undef
    \/ el.dataLazy # Undef
NewElements(s, e) ==
    {x \in Inside(s, e) :
        Matches(s.dom[x]) /\ loadingClass \notin s.dom[x].classList}
\* this.observer.observe(element) on a null observer throws a TypeError
ProcessThrows(s, e) == s.observer = "null" /\ NewElements(s, e) # {}
\* a re-scan of the whole document instead of the container
processNewContentDocumentWide(s, e) ==
    LET new == {x \in Elems :
                    /\ s.dom[x].attached /\ x # e
                    /\ Matches(s.dom[x])
                    /\ loadingClass \notin s.dom[x].classList}
    IN  [s EXCEPT
            !.observed = @ \cup new,
            !.dom = [x \in Elems |->
                IF x \in new
                THEN [s.dom[x] EXCEPT !.classList = @ \cup {loadingClass}]
                ELSE s.dom[x]]]
processNewContent(s, e) ==
    LET new == NewElements(s, e)
    IN  [s EXCEPT
            !.observed = @ \cup new,
            !.dom = [x \in Elems |->
                IF x \in new
                THEN [s.dom[x] EXCEPT !.classList = @ \cup {loadingClass}]
                ELSE s.dom[x]]]

\* the .then(html => ...) of loadContent; a throw inside it lands in .catch
contentThen(s, e, via) ==
    LET s1 == [s EXCEPT
                !.dom[e].innerHTML = "html",
                !.dom[e].dataLazy = Undef,
                !.dom[Nested] =
                    IF e = FragmentHost /\ nestedHtml.attached
                    THEN [nestedHtml EXCEPT !.node = 1 - s.dom[Nested].node]
                    ELSE @,
                !.observed =
                    IF e = FragmentHost /\ nestedHtml.attached
                    THEN @ \ {Nested} ELSE @,
                !.ev[Nested] =
                    IF e = FragmentHost /\ nestedHtml.attached
                    THEN NoEvents ELSE @]
    IN  IF ProcessThrows(s1, e)
        THEN Rejected(handleLoadError(s1, e), e, via)
        ELSE onElementLoaded(processNewContent(s1, e), e)

\* a filter that keeps the images the browser has already loaded
CollectImageIgnoringComplete(el) ==
    /\ el.attached /\ el.tag = "IMG"
    /\ (el.loading = "lazy" \/ el.dataSrc # Undef)
    /\ ~(el.loading = "lazy" /\ ~Truthy(el.dataSrc) /\ enableNativeLoading)
\* collectElements()
CollectImage(el) ==
    /\ el.attached /\ el.tag = "IMG"
    /\ (el.loading = "lazy" \/ el.dataSrc # Undef)
    /\ ~el.complete
    /\ ~(el.loading = "lazy" /\ ~Truthy(el.dataSrc) /\ enableNativeLoading)
collectImages(d) == {e \in Elems : CollectImage(d[e])}
collectBackgrounds(d) == {e \in Elems : d[e].attached /\ d[e].dataBg # Undef}
collectContent(d) == {e \in Elems : d[e].attached /\ d[e].dataLazy # Undef}

\* observeElements(); on a null observer the first observe() throws
observeElements(s, roster) ==
    IF s.observer = "null" THEN s
    ELSE [s EXCEPT
            !.observed = @ \cup roster,
            !.dom = [x \in Elems |->
                IF x \in roster
                THEN [s.dom[x] EXCEPT !.classList = @ \cup {loadingClass}]
                ELSE s.dom[x]]]

(* ------------------------------ actions ------------------------------- *)

\* what no step of the pipeline changes: its configuration, and the other
\* components of the page
Config == <<nestedHtml, hasIO, retryAttempts, enableNativeLoading, net, Widgets>>
Rosters == <<images, backgrounds, content>>
Attached == {e \in Elems : dom[e].attached}
Dec(s, e, kind, via) == [s EXCEPT !.loads[e][<<kind, via>>] = @ - 1]
Idle(e) == loads[e] = NoLoads /\ timers[e] = <<>> /\ fadeTimers[e] = 0

\* the fallback without its third roster: fragments are never fetched
loadAllImmediatelyNoContent(s, imgs, bgs, cnt) ==
    LET s1 == FoldSeq(LAMBDA st, x : loadImage(Started(st, x), x, "direct"),
                      s, SeqOfSet(imgs))
    IN  FoldSeq(LAMBDA st, x : loadBackground(Started(st, x), x, "direct"),
                s1, SeqOfSet(bgs))
\* loadAllImmediately(): the loaders are called directly, roster by roster
loadAllImmediately(s, imgs, bgs, cnt) ==
    LET s1 == FoldSeq(LAMBDA st, x : loadImage(Started(st, x), x, "direct"),
                      s, SeqOfSet(imgs))
        s2 == FoldSeq(LAMBDA st, x : loadBackground(Started(st, x), x, "direct"),
                      s1, SeqOfSet(bgs))
    IN  FoldSeq(LAMBDA st, x : loadContent(Started(st, x), x, "direct"),
                s2, SeqOfSet(cnt))

\* init()
init ==
    /\ phase = "constructed"
    /\ phase' = "active"
    /\ images' = collectImages(dom)
    /\ backgrounds' = collectBackgrounds(dom)
    /\ content' = collectContent(dom)
    /\ IF ~hasIO
       THEN Commit(loadAllImmediately(State, images', backgrounds', content'))
       ELSE Commit(observeElements([State EXCEPT !.observer = "active"],
                                   images' \cup backgrounds' \cup content'))
    /\ UNCHANGED <<Config, calls>>

\* an intersection callback that starts the loads and keeps the registrations
handleIntersectionKeeping(entries) ==
    /\ observer = "active"
    /\ Commit(FoldSeq(LAMBDA st, x : loadElement(st, x), State, entries))
    /\ UNCHANGED <<Config, Rosters, phase, calls>>
\* handleIntersection(entries), every entry intersecting
handleIntersection(entries) ==
    /\ observer = "active"
    /\ Commit(FoldSeq(LAMBDA st, x : [loadElement(st, x) EXCEPT !.observed = @ \ {x}],
                      State, entries))
    /\ UNCHANGED <<Config, Rosters, phase, calls>>

\* imageLoader.onload / onerror of loadImage
imageLoaded(e, via) ==
    /\ loads[e][<<"image", via>>] > 0
    /\ net[e] # "down"
    /\ Commit(imageOnload(Dec(State, e, "image", via), e))
    /\ UNCHANGED <<Config, Rosters, phase, calls>>

imageFailed(e, via) ==
    /\ loads[e][<<"image", via>>] > 0
    /\ net[e] # "up"
    /\ Commit(Failed(Dec(State, e, "image", via), e, via))
    /\ UNCHANGED <<Config, Rosters, phase, calls>>

\* imageLoader.onload / onerror of loadBackground
backgroundLoaded(e, via) ==
    /\ loads[e][<<"background", via>>] > 0
    /\ net[e] # "down"
    /\ Commit(backgroundOnload(Dec(State, e, "background", via), e))
    /\ UNCHANGED <<Config, Rosters, phase, calls>>

backgroundFailed(e, via) ==
    /\ loads[e][<<"background", via>>] > 0
    /\ net[e] # "up"
    /\ Commit(Failed(Dec(State, e, "background", via), e, via))
    /\ UNCHANGED <<Config, Rosters, phase, calls>>

\* fetch(contentUrl) answers ok and the text arrives.  The element of an
\* earlier injection that still has loads or timers of its own is not
\* replaced (one nested element is tracked at a time).
contentFetched(e, via) ==
    /\ loads[e][<<"content", via>>] > 0
    /\ net[e] # "down"
    /\ (e = FragmentHost /\ nestedHtml.attached) => Idle(Nested)
    /\ Commit(contentThen(Dec(State, e, "content", via), e, via))
    /\ UNCHANGED <<Config, Rosters, phase, calls>>

\* a non-ok answer taken for the fragment: response.ok is not looked at
contentFailedInjecting(e, via) ==
    /\ loads[e][<<"content", via>>] > 0
    /\ net[e] # "up"
    /\ (e = FragmentHost /\ nestedHtml.attached) => Idle(Nested)
    /\ Commit(contentThen(Dec(State, e, "content", via), e, via))
    /\ UNCHANGED <<Config, Rosters, phase, calls>>
\* fetch rejects, or answers with a non-ok status
contentFailed(e, via) ==
    /\ loads[e][<<"content", via>>] > 0
    /\ net[e] # "up"
    /\ Commit(Failed(Dec(State, e, "content", via), e, via))
    /\ UNCHANGED <<Config, Rosters, phase, calls>>

\* the setTimeout callback of handleLoadError
retryTimer(e) ==
    /\ timers[e] # <<>>
    /\ Head(timers[e]) = 0
    /\ Commit(loadElement([State EXCEPT !.timers[e] = Tail(@)], e))
    /\ UNCHANGED <<Config, Rosters, phase, calls>>

\* one unit of retryDelay passes; a due timer fires first
Tick ==
    /\ \E e \in Elems : timers[e] # <<>>
    /\ \A e \in Elems : \A i \in 1..Len(timers[e]) : timers[e][i] > 0
    /\ timers' = [e \in Elems |-> [i \in 1..Len(timers[e]) |-> timers[e][i] - 1]]
    /\ ev' = [e \in Elems |->
                IF ev[e].fails > 0
                THEN [ev[e] EXCEPT !.sinceFail = Sat(@, MaxRetry)]
                ELSE ev[e]]
    /\ UNCHANGED <<Config, Rosters, phase, calls, dom, observer, observed,
                   loadAttempts, loads, fadeTimers>>

\* the browser finishes loading the live image after img.src was assigned
liveImageLoaded(e) ==
    /\ dom[e].tag = "IMG"
    /\ Truthy(dom[e].src)
    /\ ~dom[e].complete
    /\ dom[e].src = Placeholder \/ net[e] # "down"
    /\ dom' = [dom EXCEPT ![e].complete = TRUE]
    /\ UNCHANGED <<Config, Rosters, phase, calls, observer, observed,
                   loadAttempts, loads, timers, fadeTimers, ev>>

\* the clean-up timeout of onElementLoaded's fade-in
fadeCleanup(e) ==
    /\ fadeTimers[e] > 0
    /\ fadeTimers' = [fadeTimers EXCEPT ![e] = @ - 1]
    /\ dom' = [dom EXCEPT ![e].fade = FALSE]
    /\ UNCHANGED <<Config, Rosters, phase, calls, observer, observed,
                   loadAttempts, loads, timers, ev>>

\* a refresh that also forgets the attempt counters
refreshClearingAttempts ==
    /\ phase = "active"
    /\ calls < MaxCalls
    /\ calls' = calls + 1
    /\ images' = collectImages(dom)
    /\ backgrounds' = collectBackgrounds(dom)
    /\ content' = collectContent(dom)
    /\ Commit(observeElements([State EXCEPT !.observed = {},
                                            !.loadAttempts = [k \in Keys |-> 0]],
                              images' \cup backgrounds' \cup content'))
    /\ UNCHANGED <<Config, phase>>
\* refresh()
refresh ==
    /\ phase = "active"
    /\ calls < MaxCalls
    /\ calls' = calls + 1
    /\ images' = collectImages(dom)
    /\ backgrounds' = collectBackgrounds(dom)
    /\ content' = collectContent(dom)
    /\ Commit(observeElements([State EXCEPT !.observed = {}],
                              images' \cup backgrounds' \cup content'))
    /\ UNCHANGED <<Config, phase>>

\* a forced load that leaves the element registered
loadNowKeeping(e) ==
    /\ phase = "active"
    /\ calls < MaxCalls
    /\ calls' = calls + 1
    /\ dom[e].attached
    /\ Commit(loadElement(State, e))
    /\ UNCHANGED <<Config, Rosters, phase>>
\* loadNow(element)
loadNow(e) ==
    /\ phase = "active"
    /\ calls < MaxCalls
    /\ calls' = calls + 1
    /\ dom[e].attached
    /\ Commit(loadElement([State EXCEPT !.observed = @ \ {e}], e))
    /\ UNCHANGED <<Config, Rosters, phase>>

\* loadAll()
loadAll ==
    LET pending(roster) ==
            SeqOfSet({e \in roster : loadingClass \in dom[e].classList})
    IN  /\ phase = "active"
        /\ calls < MaxCalls
        /\ calls' = calls + 1
        /\ Commit(FoldSeq(
                LAMBDA st, x : loadElement([st EXCEPT !.observed = @ \ {x}], x),
                State, pending(images) \o pending(backgrounds) \o pending(content)))
        /\ UNCHANGED <<Config, Rosters, phase>>

\* a destroy that leaves the attempt counters in place
destroyKeepingAttempts ==
    /\ phase = "active"
    /\ phase' = "destroyed"
    /\ observer' = "null"
    /\ observed' = {}
    /\ dom' = [e \in Elems |->
                IF dom[e].attached /\ dom[e].classList \cap MarkerClasses # {}
                THEN [dom[e] EXCEPT !.classList = @ \ MarkerClasses, !.fade = FALSE]
                ELSE dom[e]]
    /\ images' = {}
    /\ backgrounds' = {}
    /\ content' = {}
    /\ UNCHANGED <<Config, calls, loadAttempts, loads, timers, fadeTimers, ev>>
\* destroy()
destroy ==
    /\ phase = "active"
    /\ phase' = "destroyed"
    /\ observer' = "null"
    /\ observed' = {}
    /\ dom' = [e \in Elems |->
                IF dom[e].attached /\ dom[e].classList \cap MarkerClasses # {}
                THEN [dom[e] EXCEPT !.classList = @ \ MarkerClasses, !.fade = FALSE]
                ELSE dom[e]]
    /\ images' = {}
    /\ backgrounds' = {}
    /\ content' = {}
    /\ loadAttempts' = [k \in Keys |-> 0]
    /\ UNCHANGED <<Config, calls, loads, timers, fadeTimers, ev>>

(* ------------------- PanOroApp (src/js/index.js) ---------------------- *)

\* this.components: the components initializeComponents may create, in the
\* order it creates them
Components ==
    {"bannerRotator", "mobileMenu", "contactForm", "imageModal", "lazyLoading",
     "whatsappButton", "animationObserver"}
\* AnimationObserver is created on every page, the others when the page has
\* their element
AlwaysCreated == {"animationObserver"}

\* new PanOroApp(): inits is the state of the promise each created
\* component's init() returned, initPromise that of PanOroApp.init() itself;
\* initialized counts the 'panoro:initialized' events, errorMessages the
\* messages showErrorMessage has put on the page
NewApp(present) ==
    [present |-> present \cup AlwaysCreated,
     components |-> {},
     inits |-> [c \in Components |-> "none"],
     isInitialized |-> FALSE,
     globalEvents |-> FALSE,
     initialized |-> 0,
     errorMessages |-> 0,
     initPromise |-> "none"]

\* handleError(event)
handleError(a) ==
    IF ~a.isInitialized
    THEN [a EXCEPT !.errorMessages = Sat(@, MaxEvents)]
    ELSE a

\* init(), after `await this.initializeComponents()`: setupGlobalEvents, the
\* flag, the event
initCompleted(a) ==
    [a EXCEPT !.globalEvents = TRUE,
              !.isInitialized = TRUE,
              !.initialized = Sat(@, MaxEvents),
              !.initPromise = "resolved"]

\* init(), the catch: the error goes to handleError and init() returns
initFailed(a) == [handleError(a) EXCEPT !.initPromise = "resolved"]

\* init() up to `await Promise.all(initPromises)`: every component the page
\* has an element for is created and its init() called
appInit ==
    /\ app.initPromise = "none"
    /\ app' = [app EXCEPT
                !.components = app.present,
                !.inits = [c \in Components |->
                            IF c \in app.present THEN "pending" ELSE "none"],
                !.initPromise = "pending"]
    /\ UNCHANGED <<Lazy, menu, modal, body, form, banner, anim, dash>>

\* a component's init() resolves; Promise.all resolves with the last one
componentInitResolved(c) ==
    /\ app.inits[c] = "pending"
    /\ LET a == [app EXCEPT !.inits[c] = "resolved"]
       IN  app' = IF /\ a.initPromise = "pending"
                     /\ \A x \in a.components : a.inits[x] = "resolved"
                  THEN initCompleted(a)
                  ELSE a
    /\ UNCHANGED <<Lazy, menu, modal, body, form, banner, anim, dash>>

\* a rejection taken for a settled promise: Promise.allSettled for Promise.all
componentInitRejectedSettling(c) ==
    /\ app.inits[c] = "pending"
    /\ LET a == [app EXCEPT !.inits[c] = "rejected"]
       IN  app' = IF /\ a.initPromise = "pending"
                     /\ \A x \in a.components : a.inits[x] # "pending"
                  THEN initCompleted(a)
                  ELSE a
    /\ UNCHANGED <<Lazy, menu, modal, body, form, banner, anim, dash>>
\* a component's init() rejects; Promise.all rejects with the first one
componentInitRejected(c) ==
    /\ app.inits[c] = "pending"
    /\ LET a == [app EXCEPT !.inits[c] = "rejected"]
       IN  app' = IF a.initPromise = "pending" THEN initFailed(a) ELSE a
    /\ UNCHANGED <<Lazy, menu, modal, body, form, banner, anim, dash>>

\* an 'error' or 'unhandledrejection' event reaches the window
windowError ==
    /\ app.initPromise # "none"
    /\ app.errorMessages < MaxEvents
    /\ app' = handleError(app)
    /\ app' # app
    /\ UNCHANGED <<Lazy, menu, modal, body, form, banner, anim, dash>>

\* timeouts, intervals and image preloads a widget may have outstanding at a
\* time
MaxPending == 2

(* ------------------ BannerRotator (unnamed/part_004) ------------------ *)

\* the '.banner-slide' elements of the largest banner tried
NumSlides == 3
\* the index (n + 1) % 0 of a banner without slides
NaN == -1

\* new BannerRotator(container, options): slides is slides.length, intervals
\* the autoplay intervals that exist, attached whether the listeners that
\* destroy() can remove are on the container, listening whether the
\* mouseleave listener and the IntersectionObserver are set up, notified the
\* mouseleave and visibility notifications that came after destroy()
NewBanner(autoPlay) ==
    [autoPlay |-> autoPlay, slides |-> 0, currentSlide |-> 0,
     isPlaying |-> FALSE, intervalId |-> "null", intervals |-> 0,
     attached |-> FALSE, listening |-> FALSE, destroyed |-> FALSE,
     notified |-> 0]

\* showSlide(index): NaN passes both comparisons
showSlide(b, index) ==
    IF index # NaN /\ (index < 0 \/ index >= b.slides) THEN b
    ELSE [b EXCEPT !.currentSlide = index]

\* nextSlide()
nextSlide(b) ==
    showSlide(b, IF b.slides = 0 \/ b.currentSlide = NaN THEN NaN
                 ELSE (b.currentSlide + 1) % b.slides)

\* prevSlide()
prevSlide(b) ==
    showSlide(b, IF b.slides = 0 \/ b.currentSlide = NaN THEN NaN
                 ELSE (b.currentSlide - 1 + b.slides) % b.slides)

\* play()
play(b) ==
    IF b.isPlaying \/ b.slides <= 1 THEN b
    ELSE [b EXCEPT !.intervals = @ + 1,
                   !.intervalId = "set",
                   !.isPlaying = TRUE]

\* pause(): clearInterval(null) clears nothing
pause(b) ==
    IF ~b.isPlaying THEN b
    ELSE [b EXCEPT !.intervals = IF b.intervalId = "set" THEN @ - 1 ELSE @,
                   !.intervalId = "null",
                   !.isPlaying = FALSE]

\* handleKeyboard(event), the keydown listener of the container
handleKeyboard(b, key) ==
    CASE key = "ArrowLeft" -> prevSlide(b)
      [] key = "ArrowRight" -> nextSlide(b)
      [] key = " " -> IF b.isPlaying THEN pause(b) ELSE play(b)
      [] OTHER -> b

\* PanOroApp.handleKeyboardNavigation(event), its arrow keys for the banner
bannerArrowKeys(a, b, key) ==
    IF "bannerRotator" \notin a.components THEN b
    ELSE CASE key = "ArrowLeft" -> prevSlide(b)
           [] key = "ArrowRight" -> nextSlide(b)
           [] OTHER -> b

\* a keydown with the focus in the banner (onBanner) or elsewhere: the
\* container's listener, then the document's
bannerKeydown(a, b, key, onBanner) ==
    LET c == IF onBanner THEN handleKeyboard(b, key) ELSE b
    IN  IF a.globalEvents THEN bannerArrowKeys(a, c, key) ELSE c

\* init() on a container with n slides
initBanner(b, n) ==
    IF n = 0 THEN b
    ELSE LET c == showSlide([b EXCEPT !.slides = n,
                                      !.attached = TRUE,
                                      !.listening = TRUE], 0)
         IN  IF c.autoPlay THEN play(c) ELSE c

\* destroy() leaving this.slides as it was
destroyBannerKeepingSlides(b) ==
    [pause(b) EXCEPT !.attached = FALSE,
                     !.destroyed = TRUE,
                     !.currentSlide = 0]

\* destroy(): the mouseleave listener is not the function that was added and
\* the IntersectionObserver is not disconnected, so both stay
destroyBanner(b) ==
    [pause(b) EXCEPT !.attached = FALSE,
                     !.destroyed = TRUE,
                     !.slides = 0,
                     !.currentSlide = 0]

\* the banner's outcome becomes the next state
PutBanner(b) ==
    /\ b.intervals <= MaxPending
    /\ banner' = b
    /\ UNCHANGED <<Lazy, app, menu, modal, body, form, anim, dash>>

\* init() is called
bannerInit ==
    /\ banner.slides = 0 /\ ~banner.listening /\ ~banner.destroyed
    /\ \E n \in 1 .. NumSlides : PutBanner(initBanner(banner, n))

\* play() or pause() is called
BannerMethods == {"play", "pause"}
bannerCall(method) ==
    /\ PutBanner(IF method = "play" THEN play(banner) ELSE pause(banner))
    /\ banner' # banner

\* the pointer enters the container
mouseenter ==
    /\ banner.attached
    /\ banner.isPlaying
    /\ PutBanner(pause(banner))

\* a notification is counted once destroy() has run
Notified(b) ==
    IF b.destroyed THEN [b EXCEPT !.notified = Sat(@, MaxEvents)] ELSE b

\* the pointer leaves the container
mouseleave ==
    /\ banner.listening
    /\ PutBanner(Notified(IF banner.autoPlay THEN play(banner) ELSE banner))
    /\ banner' # banner

\* the IntersectionObserver reports the container
visibility(isIntersecting) ==
    /\ banner.listening
    /\ hasIO
    /\ PutBanner(Notified(IF isIntersecting
                          THEN IF banner.autoPlay THEN play(banner)
                               ELSE banner
                          ELSE pause(banner)))
    /\ banner' # banner

\* an autoplay interval fires
intervalTick ==
    /\ banner.intervals > 0
    /\ PutBanner(nextSlide(banner))

\* a click on .banner-prev or .banner-next
bannerNav(forward) ==
    /\ banner.attached
    /\ PutBanner(IF forward THEN nextSlide(banner) ELSE prevSlide(banner))

\* destroy() is called
bannerDestroy ==
    /\ banner.listening /\ ~banner.destroyed
    /\ PutBanner(destroyBanner(banner))

(* --- MobileMenu (unnamed/part_000), ImageModal (modules/ImageModal.js) -- *)

\* the '.gallery-item img' elements collectImages finds
NumImages == 3
\* the indices of this.images
Slides == 0 .. (NumImages - 1)
\* images[i].src: the gallery images have distinct URLs; 0 stands for src=""
ImageSrc(i) == i + 1

\* new MobileMenu(): the container starts with the class 'hidden';
\* hideTimers are the timeouts close() has set, closeTimers those of
\* handleLinkClick
NewMobileMenu ==
    [isOpen |-> FALSE, hidden |-> TRUE, hideTimers |-> 0, closeTimers |-> 0]

\* new ImageModal() after init(): src, opacity and counter are those of
\* #modalImage and #imageCounter; preloads[i] counts the `new Image()` objects
\* of loadCurrentImage still loading images[i], failed tells whether one of
\* them has ended in onerror
NewImageModal ==
    [isOpen |-> FALSE, hidden |-> TRUE, hideTimers |-> 0,
     currentImageIndex |-> 0, src |-> 0, opacity |-> "", counter |-> 0,
     preloads |-> [i \in Slides |-> 0], failed |-> FALSE]

\* the two widgets and the style of the body they share
Overlay == [menu |-> menu, modal |-> modal, body |-> body]

RECURSIVE PreloadsUpTo(_, _)
PreloadsUpTo(m, i) ==
    IF i < 0 THEN 0 ELSE m.preloads[i] + PreloadsUpTo(m, i - 1)
\* the preloads of the modal whose callbacks have not fired
Outstanding(m) == PreloadsUpTo(m, NumImages - 1)

\* a handler's outcome becomes the next state of the two widgets
Set(p) ==
    /\ p.menu.hideTimers <= MaxPending
    /\ p.menu.closeTimers <= MaxPending
    /\ p.modal.hideTimers <= MaxPending
    /\ Outstanding(p.modal) <= MaxPending
    /\ menu' = p.menu
    /\ modal' = p.modal
    /\ body' = p.body
    /\ UNCHANGED <<Lazy, app, form, anim, dash>>

\* the same for a handler that leaves the banner alone
Put(p) == Set(p) /\ UNCHANGED banner

\* MobileMenu.open()
menuOpen(p) ==
    IF p.menu.isOpen THEN p
    ELSE [p EXCEPT !.menu.isOpen = TRUE,
                   !.menu.hidden = FALSE,
                   !.body = "hidden"]

\* MobileMenu.close()
menuClose(p) ==
    IF ~p.menu.isOpen THEN p
    ELSE [p EXCEPT !.menu.isOpen = FALSE,
                   !.menu.hideTimers = @ + 1,
                   !.body = ""]

\* MobileMenu.toggle()
menuToggle(p) == IF p.menu.isOpen THEN menuClose(p) ELSE menuOpen(p)

\* the click targets inside the menu container
InsideMenu == {"menuLink", "menu"}

\* MobileMenu.handleOutsideClick(event), the document's click listener
handleOutsideClick(p, target) ==
    IF ~p.menu.isOpen THEN p
    ELSE IF target \notin InsideMenu /\ target # "toggle" THEN menuClose(p)
    ELSE p

\* MobileMenu.handleLinkClick(event) on a link to '#...'
handleLinkClick(p) == [p EXCEPT !.menu.closeTimers = @ + 1]

\* MobileMenu.handleKeydown(event): Tab and the arrows only move the focus
menuHandleKeydown(p, key) ==
    IF ~p.menu.isOpen THEN p
    ELSE IF key = "Escape" THEN menuClose(p)
    ELSE p

\* ImageModal.loadCurrentImage(): a new preload each time
loadCurrentImage(m) ==
    IF m.currentImageIndex \notin Slides THEN m
    ELSE [m EXCEPT !.opacity = "0.5",
                   !.preloads[m.currentImageIndex] = @ + 1]

\* ImageModal.updateImageCounter(): the text is `${currentImageIndex + 1} de N`
updateImageCounter(m) == [m EXCEPT !.counter = m.currentImageIndex + 1]

\* ImageModal.open()
modalOpen(p) ==
    IF p.modal.isOpen \/ NumImages = 0 THEN p
    ELSE [p EXCEPT !.modal = loadCurrentImage([@ EXCEPT !.isOpen = TRUE,
                                                        !.hidden = FALSE]),
                   !.body = "hidden"]

\* ImageModal.close()
modalClose(p) ==
    IF ~p.modal.isOpen THEN p
    ELSE [p EXCEPT !.modal.isOpen = FALSE,
                   !.modal.hideTimers = @ + 1,
                   !.body = ""]

\* ImageModal.handleImageClick(index)
handleImageClick(p, index) ==
    modalOpen([p EXCEPT !.modal.currentImageIndex = index])

\* ImageModal.nextImage()
nextImage(p) ==
    IF NumImages <= 1 THEN p
    ELSE [p EXCEPT !.modal =
            loadCurrentImage([@ EXCEPT !.currentImageIndex =
                                            (@ + 1) % NumImages])]

\* ImageModal.prevImage()
prevImage(p) ==
    IF NumImages <= 1 THEN p
    ELSE [p EXCEPT !.modal =
            loadCurrentImage([@ EXCEPT !.currentImageIndex =
                                            (@ - 1 + NumImages) % NumImages])]

\* the keys the listeners tell apart
KeyNames == {"Escape", "ArrowLeft", "ArrowRight", "Home", "End", " "}

\* ImageModal.handleKeydown(event)
modalHandleKeydown(p, key) ==
    IF ~p.modal.isOpen THEN p
    ELSE CASE key = "Escape" -> modalClose(p)
           [] key = "ArrowLeft" -> prevImage(p)
           [] key = "ArrowRight" -> nextImage(p)
           [] key = "Home" ->
                [p EXCEPT !.modal =
                    loadCurrentImage([@ EXCEPT !.currentImageIndex = 0])]
           [] key = "End" ->
                [p EXCEPT !.modal =
                    loadCurrentImage([@ EXCEPT !.currentImageIndex =
                                                    NumImages - 1])]
           [] OTHER -> p

\* PanOroApp.handleKeyboardNavigation(event), as far as the two widgets go
handleKeyboardNavigation(a, p, key) ==
    IF key # "Escape" THEN p
    ELSE LET q == IF "imageModal" \in a.components /\ p.modal.isOpen
                  THEN modalClose(p) ELSE p
         IN  IF "mobileMenu" \in a.components /\ q.menu.isOpen
             THEN menuClose(q) ELSE q

\* what a click can land on, the gallery images apart
Targets ==
    {"toggle", "menuLink", "menu", "closeButton", "prevButton", "nextButton",
     "backdrop", "modalImage", "page"}
\* the click targets inside the modal
InsideModal ==
    {"closeButton", "prevButton", "nextButton", "backdrop", "modalImage"}

\* an element can be clicked when it is displayed and not under the modal,
\* which is 'fixed inset-0 z-50' until its class 'hidden' is back; the toggle
\* button also answers the keyboard
Clickable(p, target) ==
    CASE target \in InsideMenu -> ~p.menu.hidden
      [] target \in InsideModal -> ~p.modal.hidden
      [] target = "toggle" -> TRUE
      [] OTHER -> p.modal.hidden

\* the listeners on the target itself
targetListeners(p, target) ==
    CASE target = "toggle" -> menuToggle(p)
      [] target = "menuLink" -> handleLinkClick(p)
      [] target \in {"closeButton", "backdrop"} -> modalClose(p)
      [] target = "prevButton" -> prevImage(p)
      [] target = "nextButton" -> nextImage(p)
      [] OTHER -> p

\* a click: the target's listeners, then the document's
click(target) ==
    /\ Clickable(Overlay, target)
    /\ Put(handleOutsideClick(targetListeners(Overlay, target), target))

\* a click on the gallery image images[index]
imageClick(index) ==
    /\ Clickable(Overlay, "gallery")
    /\ Put(handleOutsideClick(handleImageClick(Overlay, index), "gallery"))

\* a keydown reaches the listeners of the banner's container when the focus
\* is in it, then the document's listeners in the order they were added:
\* MobileMenu's, ImageModal's and, once init() has set up the global events,
\* PanOroApp's
keydown(key) ==
    /\ key \in KeyNames
    /\ Set(LET p == modalHandleKeydown(menuHandleKeydown(Overlay, key), key)
           IN  IF app.globalEvents
               THEN handleKeyboardNavigation(app, p, key)
               ELSE p)
    /\ \E onBanner \in {FALSE, banner.attached} :
        /\ banner' = bannerKeydown(app, banner, key, onBanner)
        /\ banner'.intervals <= MaxPending

\* a swipe on #modalImage: handleSwipe()
swipe(left) ==
    /\ ~modal.hidden
    /\ Put(IF left THEN nextImage(Overlay) ELSE prevImage(Overlay))

\* the window is resized to 768px or more
resize ==
    /\ menu.isOpen
    /\ Put(menuClose(Overlay))

\* the methods other code may call
Methods == {"menu.open", "menu.close", "menu.toggle", "modal.open", "modal.close"}
call(method) ==
    /\ Put(CASE method = "menu.open" -> menuOpen(Overlay)
             [] method = "menu.close" -> menuClose(Overlay)
             [] method = "menu.toggle" -> menuToggle(Overlay)
             [] method = "modal.open" -> modalOpen(Overlay)
             [] method = "modal.close" -> modalClose(Overlay))
    /\ Overlay' # Overlay

\* the timeout of close() without its `if (!this.isOpen)`
menuHideTimeoutUnchecked ==
    /\ menu.hideTimers > 0
    /\ Put([Overlay EXCEPT !.menu.hideTimers = @ - 1,
                           !.menu.hidden = TRUE])

\* the timeout MobileMenu.close() set
menuHideTimeout ==
    /\ menu.hideTimers > 0
    /\ Put([Overlay EXCEPT !.menu.hideTimers = @ - 1,
                           !.menu.hidden = IF ~menu.isOpen THEN TRUE ELSE @])

\* the timeout handleLinkClick set
menuCloseTimeout ==
    /\ menu.closeTimers > 0
    /\ Put(menuClose([Overlay EXCEPT !.menu.closeTimers = @ - 1]))

\* the timeout ImageModal.close() set
modalHideTimeout ==
    /\ modal.hideTimers > 0
    /\ Put([Overlay EXCEPT !.modal.hideTimers = @ - 1,
                           !.modal.hidden = IF ~modal.isOpen THEN TRUE ELSE @])

\* img.onload of a preload of images[i]
preloadOnload(i) ==
    /\ modal.preloads[i] > 0
    /\ Put([Overlay EXCEPT !.modal =
                updateImageCounter([@ EXCEPT !.preloads[i] = @ - 1,
                                             !.src = ImageSrc(i),
                                             !.opacity = "1"])])

\* img.onerror of a preload of images[i]
preloadOnerror(i) ==
    /\ modal.preloads[i] > 0
    /\ Put([Overlay EXCEPT !.modal.preloads[i] = @ - 1,
                           !.modal.opacity = "1",
                           !.modal.failed = TRUE])

(* ------------------- ContactForm (src/js/index.js) -------------------- *)

\* the trimmed values tried in the fields: lengths for the name and the
\* message, characters for the address
NameValues == {0, 1, 2, 51}
EmailValues == {<<>>, <<"a", "@", "b">>, <<"a", "@", "b", ".", "c">>}
MessageValues == {0, 9, 10, 1001}
NoValues == [name |-> 0, email |-> <<>>, message |-> 0]

\* new ContactForm(form, options) after init(); inFlight counts the
\* submitForm calls that have not settled, ignored the submit events that
\* returned at once, last is how the last submitForm call settled, shown
\* the message showMessage was called with then and event the custom event
\* handleSubmit dispatched then
NewContactForm(endpoint) ==
    [submitEndpoint |-> endpoint,
     isSubmitting |-> FALSE,
     disabled |-> FALSE,
     buttonText |-> "Enviar",
     buttonClasses |-> {},
     originalButtonText |-> Undef,
     values |-> NoValues,
     message |-> "none",
     inFlight |-> 0,
     ignored |-> 0,
     last |-> "none",
     shown |-> "none",
     event |-> "none"]

\* the menu and the modal as constructed, the body scrolling
OverlaysClosed ==
    /\ menu = NewMobileMenu
    /\ modal = NewImageModal
    /\ body = ""

\* validateName(value)
validateName(len) == len # 0 /\ len >= 2 /\ len <= 50

\* validateEmail(value): /^[^\s@]+@[^\s@]+\.[^\s@]+$/
validateEmail(s) ==
    /\ Len(s) # 0
    /\ \E i, j \in 1 .. Len(s) :
        /\ 1 < i /\ i + 1 < j /\ j < Len(s)
        /\ s[i] = "@" /\ s[j] = "."
        /\ \A k \in (1 .. Len(s)) \ {i} : s[k] \notin {"@", " "}

\* validateMessage(value)
validateMessage(len) == len # 0 /\ len >= 10 /\ len <= 1000

\* validateForm()
validateForm(f) ==
    /\ validateName(f.values.name)
    /\ validateEmail(f.values.email)
    /\ validateMessage(f.values.message)

\* the classes of a button that is submitting
SubmittingClasses == {"opacity-75", "cursor-not-allowed"}

\* setSubmittingState(isSubmitting); a textContent set to undefined is ''
setSubmittingState(f, isSubmitting) ==
    IF isSubmitting
    THEN [f EXCEPT !.isSubmitting = TRUE,
                   !.disabled = TRUE,
                   !.originalButtonText = f.buttonText,
                   !.buttonText = "Enviando...",
                   !.buttonClasses = @ \cup SubmittingClasses]
    ELSE [f EXCEPT !.isSubmitting = FALSE,
                   !.disabled = FALSE,
                   !.buttonText = IF f.originalButtonText = Undef THEN ""
                                  ELSE f.originalButtonText,
                   !.buttonClasses = @ \ SubmittingClasses]

\* handleSubmit without its `if (this.isSubmitting) return`
handleSubmitUnguarded(f) ==
    IF ~validateForm(f) THEN setSubmittingState(f, FALSE)
    ELSE [setSubmittingState(f, TRUE) EXCEPT !.inFlight = @ + 1]

\* handleSubmit(event) up to `await this.submitForm(formData)`
handleSubmit(f) ==
    IF f.isSubmitting THEN [f EXCEPT !.ignored = Sat(@, MaxCalls)]
    ELSE IF ~validateForm(f) THEN setSubmittingState(f, FALSE)
    ELSE [setSubmittingState(f, TRUE) EXCEPT !.inFlight = @ + 1]

\* how submitForm settles: response.ok, a response that is not ok, a throw
Outcomes == {"ok", "notOk", "throws"}

\* handleSubmit(event) from the await on: the success branch with resetForm()
\* (which also removes the message just shown), or the catch, then the finally
afterSubmit(f, outcome) ==
    LET g == CASE outcome = "ok" ->
                    [f EXCEPT !.values = NoValues, !.message = "none",
                              !.shown = "success",
                              !.event = "formSubmitSuccess"]
               [] outcome = "throws" ->
                    [f EXCEPT !.message = "error",
                              !.shown = "error",
                              !.event = "formSubmitError"]
               [] OTHER -> [f EXCEPT !.shown = "none", !.event = "none"]
    IN  setSubmittingState([g EXCEPT !.inFlight = @ - 1, !.last = outcome],
                           FALSE)

\* the user types in a field
Fields == {"name", "email", "message"}
FieldValues(field) ==
    CASE field = "name" -> NameValues
      [] field = "email" -> EmailValues
      [] field = "message" -> MessageValues
fieldInput(field) ==
    /\ \E v \in FieldValues(field) :
        /\ v # form.values[field]
        /\ form' = [form EXCEPT !.values[field] = v]
    /\ UNCHANGED <<Lazy, app, menu, modal, body, banner, anim, dash>>

\* a 'submit' event on the form, or Ctrl+Enter in the textarea
SubmitVias == {"submit", "ctrlEnter"}
submitEvent(via) ==
    /\ form' = handleSubmit(form)
    /\ form'.inFlight <= MaxCalls
    /\ form' # form
    /\ UNCHANGED <<Lazy, app, menu, modal, body, banner, anim, dash>>

\* submitForm settles: the demo without an endpoint only resolves with true
submitSettled(outcome) ==
    /\ form.inFlight > 0
    /\ form.submitEndpoint \/ outcome = "ok"
    /\ form' = afterSubmit(form, outcome)
    /\ UNCHANGED <<Lazy, app, menu, modal, body, banner, anim, dash>>

\* the timeout of showMessage removes the message
messageTimeout ==
    /\ form.message # "none"
    /\ form' = [form EXCEPT !.message = "none"]
    /\ UNCHANGED <<Lazy, app, menu, modal, body, banner, anim, dash>>

(* ---------------- AnimationObserver (unnamed/part_001) ---------------- *)

\* the elements animations may run on: "p" and "q" match options.selector,
\* "r" is handed in through addElement
AnimElems == {"p", "q", "r"}
Selected == {"p", "q"}

\* new AnimationObserver(options): observed are the targets of the
\* IntersectionObserver, visible the elements carrying visibleClass, events
\* counts the 'elementAnimated' events of each element
NewAnim(once) ==
    [once |-> once, observer |-> "null", started |-> FALSE,
     elements |-> {}, animatedElements |-> {}, observed |-> {},
     visible |-> {}, events |-> [e \in AnimElems |-> 0]]

\* collectElements()
animCollect(a) ==
    [a EXCEPT !.elements =
        {e \in Selected : ~(a.once /\ e \in a.animatedElements)}]

\* setupInitialStates()
setupInitialStates(a) == [a EXCEPT !.visible = @ \ a.elements]

\* animateElement(element) without the check of animatedElements
animateElementAgain(a, e) ==
    [a EXCEPT !.visible = @ \cup {e},
              !.animatedElements = @ \cup {e},
              !.events[e] = @ + 1]

\* animateElement(element)
animateElement(a, e) ==
    IF a.once /\ e \in a.animatedElements THEN a
    ELSE [a EXCEPT !.visible = @ \cup {e},
                   !.animatedElements = @ \cup {e},
                   !.events[e] = @ + 1]

\* removeAnimation(element)
removeAnimation(a, e) ==
    IF a.once THEN [a EXCEPT !.visible = @ \ {e}]
    ELSE [a EXCEPT !.visible = @ \ {e}, !.animatedElements = @ \ {e}]

\* animateNow(element)
animateNow(a, e) ==
    animateElement([a EXCEPT !.observed = IF a.observer = "null" THEN @
                                          ELSE @ \ {e}], e)

RECURSIVE animateEach(_, _)
\* animateNow over a list of elements
animateEach(a, todo) ==
    IF todo = <<>> THEN a
    ELSE animateEach(animateNow(a, Head(todo)), Tail(todo))

\* the elements of a set in document order
AnimOrder(S) == SelectSeq(<<"p", "q", "r">>, LAMBDA e : e \in S)

\* the animation's outcome becomes the next state
PutAnim(a) ==
    /\ \A e \in AnimElems : a.events[e] <= MaxEvents
    /\ anim' = a
    /\ UNCHANGED <<Lazy, app, menu, modal, body, form, banner, dash>>

\* init(): without IntersectionObserver applyAllAnimations() animates at once
animInit ==
    /\ ~anim.started
    /\ PutAnim(IF ~hasIO
               THEN LET a == animCollect([anim EXCEPT !.started = TRUE])
                    IN  animateEach(a, AnimOrder(a.elements))
               ELSE LET a == setupInitialStates(animCollect(
                                [anim EXCEPT !.started = TRUE,
                                             !.observer = "active"]))
                    IN  [a EXCEPT !.observed = a.elements])

\* handleIntersection(entries) for one entry
animIntersection(e, isIntersecting) ==
    /\ anim.observer = "active"
    /\ e \in anim.observed
    /\ PutAnim(IF isIntersecting
               THEN LET a == animateElement(anim, e)
                    IN  IF a.once THEN [a EXCEPT !.observed = @ \ {e}] ELSE a
               ELSE IF ~anim.once THEN removeAnimation(anim, e) ELSE anim)
    /\ anim' # anim

\* animateNow(element) is called
animAnimateNow(e) ==
    /\ anim.started
    /\ PutAnim(animateNow(anim, e))
    /\ anim' # anim

\* animateAll()
animAnimateAll ==
    /\ anim.started
    /\ PutAnim(animateEach(anim,
                    AnimOrder(anim.elements \ anim.animatedElements)))
    /\ anim' # anim

\* pause()
animPause ==
    /\ anim.observer = "active"
    /\ anim.observed # {}
    /\ PutAnim([anim EXCEPT !.observed = {}])

\* resume()
animResume ==
    /\ anim.observer = "active"
    /\ PutAnim([anim EXCEPT !.observed = @ \cup anim.elements])
    /\ anim' # anim

\* refresh(); without an observer observeElements() throws after the
\* elements were collected
animRefresh ==
    /\ anim.started
    /\ LET a == setupInitialStates(animCollect(
                    [anim EXCEPT !.observed = {}]))
       IN  PutAnim(IF a.observer = "active"
                   THEN [a EXCEPT !.observed = a.elements]
                   ELSE a)
    /\ anim' # anim

\* addElement(element)
animAddElement(e) ==
    /\ anim.started
    /\ e \notin anim.elements
    /\ LET a == setupInitialStates([anim EXCEPT !.elements = @ \cup {e}])
       IN  PutAnim(IF a.observer = "active"
                   THEN [a EXCEPT !.observed = @ \cup {e}]
                   ELSE a)

(* ------------------ the inventory dashboard (dashboard.js) ------------ *)

\* the requests to the service that may be without an answer at a time
MaxRequests == 1
\* the products a page shows: 15 in dashboard.js, 2 here so that three
\* products fill more than one page
itemsPerPage == 2
\* the products in the table at the start
StartProducts == 3
\* product names and search texts, as characters
ProductNames == {<<"P", "a", "n">>, <<"O", "r", "o">>}
SearchTexts == {<<>>, <<"P", "A">>, <<"o">>, <<"x">>}

\* String.prototype.toLowerCase(), for the letters used
LowerChar(c) ==
    CASE c = "P" -> "p"
      [] c = "A" -> "a"
      [] c = "O" -> "o"
      [] OTHER -> c
toLowerCase(s) == [i \in 1 .. Len(s) |-> LowerChar(s[i])]

\* String.prototype.includes(t)
includes(s, t) ==
    \E i \in 0 .. (Len(s) - Len(t)) :
        \A k \in 1 .. Len(t) : s[i + k] = t[k]

\* Array.prototype.slice(start, end)
slice(s, start, end) ==
    [i \in 1 .. (IF Len(s) < end THEN IF Len(s) < start THEN 0
                                      ELSE Len(s) - start
                 ELSE end - start) |-> s[start + i]]

\* the products of a list whose name contains the search text, whatever the
\* case
filterByName(products, text) ==
    SelectSeq(products,
              LAMBDA product :
                includes(toLowerCase(product.name), toLowerCase(text)))

\* Math.ceil(n / itemsPerPage)
totalPages(d) == (Len(d.filteredProducts) + itemsPerPage - 1) \div itemsPerPage

\* the table 'products', newest first, as the page is opened
StartTable ==
    [i \in 1 .. StartProducts |->
        [id |-> StartProducts + 1 - i,
         name |-> IF i % 2 = 1 THEN <<"P", "a", "n">> ELSE <<"O", "r", "o">>]]

\* the page as DOMContentLoaded has found a session and asked for the
\* products: table is the table at the service, searchBar the text in the
\* search bar, rendered the products in the list container, controls whether
\* the pagination controls are there, fetches, inserts and deletes the
\* requests without an answer, added the products added so far, typedEarly
\* whether the search bar was ever typed in while a request was unanswered
NewDash ==
    [table |-> StartTable,
     allProducts |-> <<>>, filteredProducts |-> <<>>, currentPage |-> 1,
     searchBar |-> <<>>, rendered |-> <<>>, controls |-> FALSE,
     fetches |-> 1, inserts |-> <<>>, deletes |-> {}, added |-> 0,
     typedEarly |-> FALSE]

\* renderProductsWithPagination()
renderProductsWithPagination(d) ==
    LET startIndex == (d.currentPage - 1) * itemsPerPage
    IN  [d EXCEPT !.rendered = slice(d.filteredProducts, startIndex,
                                     startIndex + itemsPerPage),
                  !.controls = totalPages(d) > 1]

\* fetchAndDisplayProducts(), from the answer on
fetchAndDisplayProducts(d, data) ==
    renderProductsWithPagination(
        [d EXCEPT !.allProducts = data,
                  !.filteredProducts = data,
                  !.currentPage = 1])

\* the requests without an answer
Unanswered(d) == d.fetches + Len(d.inserts) + Cardinality(d.deletes)

\* the dashboard's outcome becomes the next state
PutDash(d) ==
    /\ Unanswered(d) <= MaxRequests
    /\ d.added <= MaxCalls
    /\ dash' = d
    /\ UNCHANGED <<Lazy, app, menu, modal, body, form, banner, anim>>

\* the 'input' listener of the search bar
searchInput(text) ==
    /\ text # dash.searchBar
    /\ PutDash(renderProductsWithPagination(
            [dash EXCEPT !.searchBar = text,
                         !.typedEarly = @ \/ Unanswered(dash) > 0,
                         !.filteredProducts =
                            filterByName(dash.allProducts, text),
                         !.currentPage = 1]))

\* the 'submit' listener of the add-product form, up to the insert
addProduct(name) ==
    /\ name \in ProductNames
    /\ PutDash([dash EXCEPT !.inserts = Append(@, name), !.added = @ + 1])

\* the insert is answered: with an error, or the row is in the table and the
\* list is fetched again
insertAnswered(ok) ==
    /\ dash.inserts # <<>>
    /\ LET d == [dash EXCEPT !.inserts = Tail(@)]
       IN  PutDash(IF ok
                   THEN [d EXCEPT
                            !.table = <<[id |-> StartProducts + dash.added
                                                - Len(d.inserts),
                                         name |-> Head(dash.inserts)]>> \o @,
                            !.fetches = @ + 1]
                   ELSE d)

\* a click on the delete button of a rendered product, confirmed
deleteProduct(id) ==
    /\ \E i \in 1 .. Len(dash.rendered) : dash.rendered[i].id = id
    /\ id \notin dash.deletes
    /\ PutDash([dash EXCEPT !.deletes = @ \cup {id}])

\* the delete is answered: with an error, or the row is gone and the list is
\* fetched again
deleteAnswered(id, ok) ==
    /\ id \in dash.deletes
    /\ LET d == [dash EXCEPT !.deletes = @ \ {id}]
       IN  PutDash(IF ok
                   THEN [d EXCEPT
                            !.table = SelectSeq(@, LAMBDA r : r.id # id),
                            !.fetches = @ + 1]
                   ELSE d)

\* the select is answered: with an error, or with the table
fetchAnswered(ok) ==
    /\ dash.fetches > 0
    /\ LET d == [dash EXCEPT !.fetches = @ - 1]
       IN  PutDash(IF ok THEN fetchAndDisplayProducts(d, dash.table) ELSE d)

\* a click on a page number, on 'Anterior' or on 'Siguiente'
pageClick(page) ==
    /\ dash.controls
    /\ page \in 1 .. totalPages(dash)
    /\ page # dash.currentPage
    /\ \/ page = dash.currentPage - 1
       \/ page = dash.currentPage + 1
       \/ /\ page >= dash.currentPage - 2
          /\ page <= dash.currentPage + 2
    /\ PutDash(renderProductsWithPagination(
            [dash EXCEPT !.currentPage = page]))

(* ------------------------ every other component ----------------------- *)

\* no banner, animation or dashboard at work
OthersIdle ==
    /\ banner = NewBanner(TRUE)
    /\ anim = NewAnim(TRUE)
    /\ dash = NewDash

\* no other component on the page
WidgetsAbsent ==
    /\ app = NewApp({})
    /\ OverlaysClosed
    /\ form = NewContactForm(FALSE)
    /\ OthersIdle

(* --------------------------- specifications --------------------------- *)

\* the state after `new LazyLoading(options)` on a page
Constructed(pages, fragments, nets, retries, io, native) ==
    /\ dom \in pages
    /\ nestedHtml \in fragments
    /\ net \in nets
    /\ retryAttempts \in retries
    /\ hasIO \in io
    /\ enableNativeLoading \in native
    /\ phase = "constructed"
    /\ observer = "null"
    /\ observed = {}
    /\ images = {}
    /\ backgrounds = {}
    /\ content = {}
    /\ loadAttempts = [k \in Keys |-> 0]
    /\ loads = [e \in Elems |-> NoLoads]
    /\ timers = [e \in Elems |-> <<>>]
    /\ fadeTimers = [e \in Elems |-> 0]
    /\ ev = [e \in Elems |-> NoEvents]
    /\ calls = 0
    /\ WidgetsAbsent

Page(x, y) == [e \in Elems |-> IF e = "a" THEN x ELSE IF e = "b" THEN y ELSE NoElement]

Completion ==
    \E e \in Elems, via \in Vias :
        \/ imageLoaded(e, via)
        \/ imageFailed(e, via)
        \/ backgroundLoaded(e, via)
        \/ backgroundFailed(e, via)
        \/ contentFetched(e, via)
        \/ contentFailed(e, via)

\* a page of one lazy element of any shape, or a fragment whose HTML holds a
\* lazy image that loads; URLs may answer either way
Init ==
    \/ Constructed({Page(x, NoElement) : x \in LazyShapes("a")}, {NoElement},
                   [Elems -> {"flaky"}], {DefaultRetryAttempts}, BOOLEAN, BOOLEAN)
    \/ Constructed({Page(x, NoElement) : x \in EagerShapes("a")}, {NoElement},
                   [Elems -> {"flaky"}], {DefaultRetryAttempts}, BOOLEAN, {TRUE})
    \/ Constructed({Page(Frag(UrlOf("a")), NoElement)},
                   {Img(UrlOf(Nested), FALSE, FALSE, FALSE)},
                   {[e \in Elems |-> IF e = Nested THEN "up" ELSE "flaky"]},
                   {DefaultRetryAttempts}, {TRUE}, {TRUE})

Next ==
    \/ init
    \/ \E entries \in Batches(observed \cap Attached) : handleIntersection(entries)
    \/ Completion
    \/ \E e \in Elems : retryTimer(e)
    \/ Tick
    \/ \E e \in Elems : liveImageLoaded(e)
    \/ \E e \in Elems : fadeCleanup(e)
    \/ refresh
    \/ \E e \in Elems : loadNow(e)
    \/ loadAll
    \/ destroy

Spec == Init /\ [][Next]_vars

(* ---- the retry policy on elements whose loads always fail ------------- *)

Failure ==
    \E e \in Elems, via \in Vias :
        \/ imageFailed(e, via)
        \/ backgroundFailed(e, via)
        \/ contentFailed(e, via)

\* a lazy element of any shape, alone or beside a fragment or an image of
\* the same URL; no URL ever answers; any retryAttempts, with and without
\* IntersectionObserver; only the pipeline's own steps
InitRetry ==
    Constructed({Page(x, y) : x \in Shapes("a"),
                              y \in {NoElement, Frag(UrlOf("b")),
                                     Img(UrlOf("a"), FALSE, FALSE, FALSE)}},
                {NoElement}, [Elems -> {"down"}], 0..MaxRetry, BOOLEAN, {FALSE})

NextRetry ==
    \/ init
    \/ \E entries \in Batches(observed \cap Attached) : handleIntersection(entries)
    \/ Failure
    \/ \E e \in Elems : retryTimer(e)
    \/ Tick
    \/ \E e \in Elems : liveImageLoaded(e)

SpecRetry == InitRetry /\ [][NextRetry]_vars

\* the network answers every request and a timer that is due fires
InitRetryFair ==
    Constructed({Page(x, NoElement) : x \in Shapes("a")}, {NoElement},
                [Elems -> {"down"}], 0..MaxRetry, BOOLEAN, {FALSE})
SpecRetryFair ==
    /\ InitRetryFair /\ [][NextRetry]_vars
    /\ WF_vars(Failure)
    /\ WF_vars(\E e \in Elems : retryTimer(e))
    /\ WF_vars(Tick)

(* ---- the eager fallback: no IntersectionObserver in window ------------ *)

InitFallback ==
    \/ Constructed({Page(x, NoElement) : x \in Shapes("a")}, {NoElement},
                   [Elems -> {"flaky"}], 0..MaxRetry, {FALSE}, {FALSE})
    \/ Constructed({Page(Frag(UrlOf("a")), NoElement)},
                   {Img(UrlOf(Nested), FALSE, FALSE, FALSE)},
                   [Elems -> {"flaky"}], 0..MaxRetry, {FALSE}, {TRUE})

NextFallback ==
    \/ init
    \/ Completion
    \/ \E e \in Elems : retryTimer(e)
    \/ Tick
    \/ \E e \in Elems : liveImageLoaded(e)
    \/ \E e \in Elems : fadeCleanup(e)

SpecFallback == InitFallback /\ [][NextFallback]_vars

(* ---- the observer-driven pipeline on a page of several elements ------- *)

\* two elements of the document, or a fragment whose HTML holds a lazy
\* element beside a second element; the pipeline's own steps only
InitPage ==
    \/ Constructed({Page(x, y) : x \in Shapes("a"),
                                 y \in {NoElement, Bg(UrlOf("b")),
                                        Img(UrlOf("b"), FALSE, FALSE, TRUE)}},
                   {NoElement}, [Elems -> {"flaky"}], {DefaultRetryAttempts},
                   {TRUE}, {FALSE})
    \/ Constructed({Page(Frag(UrlOf("a")), y) :
                        y \in {NoElement, Img(UrlOf("b"), FALSE, FALSE, FALSE)}},
                   {Img(UrlOf(Nested), FALSE, FALSE, FALSE), Bg(UrlOf(Nested))},
                   [Elems -> {"flaky"}], {DefaultRetryAttempts}, {TRUE}, {FALSE})

NextPage ==
    \/ init
    \/ \E entries \in Batches(observed \cap Attached) : handleIntersection(entries)
    \/ Completion
    \/ \E e \in Elems : retryTimer(e)
    \/ Tick
    \/ \E e \in Elems : liveImageLoaded(e)
    \/ \E e \in Elems : fadeCleanup(e)

SpecPage == InitPage /\ [][NextPage]_vars

(* ---- refresh() and destroy() as the only calls made from outside ------ *)

NextRefresh ==
    \/ init
    \/ \E entries \in Batches(observed \cap Attached) : handleIntersection(entries)
    \/ Completion
    \/ \E e \in Elems : retryTimer(e)
    \/ Tick
    \/ \E e \in Elems : liveImageLoaded(e)
    \/ \E e \in Elems : fadeCleanup(e)
    \/ refresh
    \/ destroy

SpecRefresh == Init /\ [][NextRefresh]_vars

(* ---- loadNow() as the only call made from outside --------------------- *)

NextLoadNow ==
    \/ init
    \/ \E entries \in Batches(observed \cap Attached) : handleIntersection(entries)
    \/ Completion
    \/ \E e \in Elems : retryTimer(e)
    \/ Tick
    \/ \E e \in Elems : liveImageLoaded(e)
    \/ \E e \in Elems : fadeCleanup(e)
    \/ \E e \in Elems : loadNow(e)

SpecLoadNow == Init /\ [][NextLoadNow]_vars

(* ---- the application's start-up ---------------------------------------- *)

\* a page without lazy elements, in a browser with IntersectionObserver (io)
\* or without: the pipeline's variables stay as constructed
PageWithoutLazy(io) ==
    /\ dom = Page(NoElement, NoElement)
    /\ nestedHtml = NoElement
    /\ net = [e \in Elems |-> "up"]
    /\ retryAttempts = DefaultRetryAttempts
    /\ hasIO = io
    /\ enableNativeLoading = TRUE
    /\ phase = "constructed"
    /\ observer = "null"
    /\ observed = {}
    /\ images = {}
    /\ backgrounds = {}
    /\ content = {}
    /\ loadAttempts = [k \in Keys |-> 0]
    /\ loads = [e \in Elems |-> NoLoads]
    /\ timers = [e \in Elems |-> <<>>]
    /\ fadeTimers = [e \in Elems |-> 0]
    /\ ev = [e \in Elems |-> NoEvents]
    /\ calls = 0

NoLazyLoading == PageWithoutLazy(TRUE)

InitApp ==
    /\ NoLazyLoading
    /\ OverlaysClosed
    /\ form = NewContactForm(FALSE)
    /\ OthersIdle
    /\ \E present \in SUBSET (Components \ AlwaysCreated) : app = NewApp(present)

NextApp ==
    \/ appInit
    \/ \E c \in Components : componentInitResolved(c)
    \/ \E c \in Components : componentInitRejected(c)
    \/ windowError

SpecApp == InitApp /\ [][NextApp]_vars

(* ---- the menu and the lightbox ----------------------------------------- *)

\* the application after init() on a page with a menu and a gallery
RunningApp ==
    LET a == NewApp({"mobileMenu", "imageModal"})
    IN  initCompleted([a EXCEPT
            !.components = a.present,
            !.inits = [c \in Components |->
                        IF c \in a.present THEN "resolved" ELSE "none"],
            !.initPromise = "pending"])

\* the two widgets on their own or under the running application
InitOverlay ==
    /\ NoLazyLoading
    /\ OverlaysClosed
    /\ form = NewContactForm(FALSE)
    /\ OthersIdle
    /\ app \in {NewApp({}), RunningApp}

NextOverlay ==
    \/ \E target \in Targets : click(target)
    \/ \E index \in Slides : imageClick(index)
    \/ \E key \in KeyNames : keydown(key)
    \/ \E left \in BOOLEAN : swipe(left)
    \/ resize
    \/ \E method \in Methods : call(method)
    \/ menuHideTimeout
    \/ menuCloseTimeout
    \/ modalHideTimeout
    \/ \E i \in Slides : preloadOnload(i)
    \/ \E i \in Slides : preloadOnerror(i)

SpecOverlay == InitOverlay /\ [][NextOverlay]_vars

(* ---- the contact form -------------------------------------------------- *)

InitForm ==
    /\ NoLazyLoading
    /\ OverlaysClosed
    /\ OthersIdle
    /\ app = NewApp({})
    /\ \E endpoint \in BOOLEAN : form = NewContactForm(endpoint)

NextForm ==
    \/ \E field \in Fields : fieldInput(field)
    \/ \E via \in SubmitVias : submitEvent(via)
    \/ \E outcome \in Outcomes : submitSettled(outcome)
    \/ messageTimeout

SpecForm == InitForm /\ [][NextForm]_vars

(* ---- the banner -------------------------------------------------------- *)

\* the application after init() on a page with a banner and a gallery
RunningBannerApp ==
    LET a == NewApp({"bannerRotator", "imageModal"})
    IN  initCompleted([a EXCEPT
            !.components = a.present,
            !.inits = [c \in Components |->
                        IF c \in a.present THEN "resolved" ELSE "none"],
            !.initPromise = "pending"])

\* a banner on its own before init(), or one the running application has
\* initialised
InitBanner ==
    /\ NoLazyLoading
    /\ OverlaysClosed
    /\ form = NewContactForm(FALSE)
    /\ anim = NewAnim(TRUE)
    /\ dash = NewDash
    /\ \/ /\ app = NewApp({})
          /\ \E autoPlay \in BOOLEAN : banner = NewBanner(autoPlay)
       \/ /\ app = RunningBannerApp
          /\ \E n \in 1 .. NumSlides : banner = initBanner(NewBanner(TRUE), n)

\* the banner next to the gallery's lightbox
NextBanner ==
    \/ bannerInit
    \/ \E key \in KeyNames : keydown(key)
    \/ \E method \in BannerMethods : bannerCall(method)
    \/ mouseenter
    \/ mouseleave
    \/ \E isIntersecting \in BOOLEAN : visibility(isIntersecting)
    \/ intervalTick
    \/ \E forward \in BOOLEAN : bannerNav(forward)
    \/ bannerDestroy
    \/ \E index \in Slides : imageClick(index)
    \/ click("closeButton")
    \/ modalHideTimeout
    \/ \E i \in Slides : preloadOnload(i)

SpecBanner == InitBanner /\ [][NextBanner]_vars

(* ---- the menu ---------------------------------------------------------- *)

NextMenu ==
    \/ \E target \in {"toggle", "menuLink", "menu", "page"} : click(target)
    \/ \E method \in {"menu.open", "menu.close", "menu.toggle"} : call(method)
    \/ keydown("Escape")
    \/ resize
    \/ menuHideTimeout
    \/ menuCloseTimeout
    \/ \E index \in Slides : imageClick(index)
    \/ modalHideTimeout
    \/ \E i \in Slides : preloadOnload(i)

SpecMenu == InitOverlay /\ [][NextMenu]_vars

(* ---- the scroll animations --------------------------------------------- *)

InitAnim ==
    /\ \E io \in BOOLEAN : PageWithoutLazy(io)
    /\ OverlaysClosed
    /\ app = NewApp({})
    /\ form = NewContactForm(FALSE)
    /\ banner = NewBanner(TRUE)
    /\ dash = NewDash
    /\ \E once \in BOOLEAN : anim = NewAnim(once)

NextAnim ==
    \/ animInit
    \/ \E e \in AnimElems, isIntersecting \in BOOLEAN :
            animIntersection(e, isIntersecting)
    \/ \E e \in AnimElems : animAnimateNow(e)
    \/ animAnimateAll
    \/ animPause
    \/ animResume
    \/ animRefresh
    \/ \E e \in AnimElems : animAddElement(e)

SpecAnim == InitAnim /\ [][NextAnim]_vars

(* ---- the dashboard ----------------------------------------------------- *)

InitDash ==
    /\ NoLazyLoading
    /\ OverlaysClosed
    /\ app = NewApp({})
    /\ form = NewContactForm(FALSE)
    /\ banner = NewBanner(TRUE)
    /\ anim = NewAnim(TRUE)
    /\ dash = NewDash

NextDash ==
    \/ \E text \in SearchTexts : searchInput(text)
    \/ \E name \in ProductNames : addProduct(name)
    \/ \E ok \in BOOLEAN : insertAnswered(ok)
    \/ \E id \in 1 .. (StartProducts + MaxCalls) : deleteProduct(id)
    \/ \E id \in 1 .. (StartProducts + MaxCalls), ok \in BOOLEAN :
            deleteAnswered(id, ok)
    \/ \E ok \in BOOLEAN : fetchAnswered(ok)
    \/ \E page \in 1 .. (StartProducts + MaxCalls) : pageClick(page)

SpecDash == InitDash /\ [][NextDash]_vars

(* ------------------------------ claims -------------------------------- *)

Classes(e) == dom[e].classList
InFlightCount(e) ==
    FoldSeq(LAMBDA n, k : n + loads[e][k], 0,
            <<<<"image", "loadElement">>, <<"image", "direct">>,
              <<"background", "loadElement">>, <<"background", "direct">>,
              <<"content", "loadElement">>, <<"content", "direct">>>>)

C2_TerminalIsFinal ==
    \A e \in Elems :
        ev[e].lazyError > 0 => (timers[e] = <<>> /\ InFlightCount(e) = 0)

\* C3: an element whose loads always fail gets exactly one lazyError, with
\* detail.attempts = retryAttempts + 1.
C3_OneLazyError ==
    \A e \in Elems :
        (net[e] = "down" /\ ev[e].lazyError > 0)
            => (ev[e].lazyError = 1 /\ ev[e].attempts = retryAttempts + 1)

\* C4: with retryAttempts = 2 and an image whose URL never loads, the loader
\* is invoked 3 times, the 2nd invocation at least 1 retryDelay after the 1st
\* failure and the 3rd at least 2 retryDelay after the 2nd failure.
C4_LinearBackoff ==
    [][\A e \in Elems :
        (/\ retryAttempts = 2
         /\ dom[e].tag = "IMG" /\ Truthy(dom[e].dataSrc)
         /\ ev'[e].starts > ev[e].starts)
            => /\ ev[e].starts < 3
               /\ ev[e].starts = 1 => (ev[e].fails = 1 /\ ev[e].sinceFail >= 1)
               /\ ev[e].starts = 2 => (ev[e].fails = 2 /\ ev[e].sinceFail >= 2)]_vars

\* C9: an element with no loadable URL is marked errorClass by its first load
\* attempt, with no retry scheduled and no attempt counted.
MissingPayload(el) ==
    \/ el.tag = "IMG" /\ ~Truthy(el.src) /\ ~Truthy(el.dataSrc)
    \/ el.tag = "DIV" /\ el.dataBg = ""
    \/ el.tag = "DIV" /\ el.dataLazy = ""
C9_MissingPayloadTerminal ==
    \A e \in Elems :
        (MissingPayload(dom[e]) /\ ev[e].starts > 0)
            => /\ errorClass \in Classes(e)
               /\ timers[e] = <<>>
               /\ loadAttempts[AttemptKey(dom[e])] = 0

\* C5: each element carries at most one of loadingClass, loadedClass,
\* errorClass.
C5_OneMarker ==
    \A e \in Elems : Cardinality(Classes(e) \cap MarkerClasses) <= 1

\* C6: after destroy(), a load completion or a retry timer adds no marker
\* class, dispatches no event, writes no attempt counter and schedules no
\* further load.
C6_NoOpAfterDestroy ==
    [][phase = "destroyed" =>
        /\ loadAttempts' = loadAttempts
        /\ \A e \in Elems :
            /\ Classes(e)' \subseteq Classes(e)
            /\ ev'[e].lazyLoaded = ev[e].lazyLoaded
            /\ ev'[e].lazyError = ev[e].lazyError
            /\ Len(timers'[e]) <= Len(timers[e])
            /\ InFlightCount(e)' <= InFlightCount(e)]_vars

\* C7: an element that carries loadedClass does not get loadingClass again.
C7_LoadedNeverLoading ==
    [][\A e \in Elems :
        (/\ loadedClass \in Classes(e)
         /\ loadingClass \notin Classes(e)
         /\ dom'[e].node = dom[e].node)
            => loadingClass \notin Classes(e)']_vars

\* C8: a load call on an element whose load already succeeded starts no fetch
\* or preload, changes no attribute or class and dispatches no lazyLoaded.
C8_SecondLoadNoOp ==
    [][\A e \in Elems :
        (/\ loadedClass \in Classes(e)
         /\ InFlightCount(e) = 0
         /\ dom'[e].node = dom[e].node
         /\ ev'[e].starts > ev[e].starts)
            => /\ InFlightCount(e)' = 0
               /\ dom'[e] = dom[e]
               /\ ev'[e].lazyLoaded = ev[e].lazyLoaded]_vars

\* C10: without IntersectionObserver, once every preload, fetch and timer has
\* completed, every collected element carries loadedClass or errorClass.
Quiet == \A e \in Elems : InFlightCount(e) = 0 /\ timers[e] = <<>>
C10_FallbackSettles ==
    (~hasIO /\ phase = "active" /\ Quiet)
        => \A e \in images \cup backgrounds \cup content :
                Classes(e) \cap {loadedClass, errorClass} # {}

C12_DestroyClears ==
    [][(phase = "active" /\ phase' = "destroyed") =>
        /\ observer' = "null"
        /\ observed' = {}
        /\ images' = {} /\ backgrounds' = {} /\ content' = {}
        /\ \A k \in Keys : loadAttempts'[k] = 0
        /\ \A e \in Elems :
                dom'[e].attached => Classes(e)' \cap MarkerClasses = {}]_vars

\* destroy() ran after a refresh(), on a pipeline that had counted a failure
\* and still has a retry scheduled
C12_Witness ==
    /\ phase = "destroyed"
    /\ calls >= 1
    /\ \E e \in Elems : ev[e].fails >= 1 /\ timers[e] # <<>>

\* C18: refresh() leaves the attempt-counter table as it was, and with it the
\* retries each element has left (retryAttempts minus the count under its key).
C18_RefreshKeepsAttempts ==
    [][refresh =>
        /\ loadAttempts' = loadAttempts
        /\ timers' = timers
        /\ \A e \in Elems :
                loadAttempts'[AttemptKey(dom'[e])] = loadAttempts[AttemptKey(dom[e])]]_vars

\* refresh() ran while an element had used one of its retries
C18_Witness ==
    /\ phase = "active"
    /\ calls >= 1
    /\ \E e \in observed :
            /\ loadAttempts[AttemptKey(dom[e])] >= 1
            /\ loadAttempts[AttemptKey(dom[e])] < retryAttempts

C14_ImageLoadedOnce ==
    \A e \in Elems :
        (dom[e].tag = "IMG" /\ ev[e].lazyLoaded >= 1 /\ ev[e].fails = 0)
            => /\ ev[e].starts = 1
               /\ ev[e].lazyLoaded = 1
               /\ loadedClass \in Classes(e)
               /\ loadingClass \notin Classes(e)
               /\ e \notin observed
               /\ dom[e].src = UrlOf(e)
               /\ dom[e].dataSrc = Undef
               /\ dom[e].dataSrcset = Undef
               /\ dom[e].dataSizes = Undef

\* an image with data-src, data-srcset and data-sizes was loaded at the first
\* attempt
C14_Witness ==
    \E e \in Elems :
        /\ dom[e].tag = "IMG"
        /\ ev[e].lazyLoaded = 1 /\ ev[e].fails = 0
        /\ dom[e].srcset = UrlOf(e) \o " 2x"
        /\ dom[e].sizes = "100vw"

\* C15: a load that succeeds dispatches one lazyLoaded on its element, which
\* by then carries loadedClass in place of loadingClass; a load that fails
\* dispatches none.
C15_LoadedEvent ==
    [][\A e \in Elems, via \in Vias :
        /\ (imageLoaded(e, via) \/ backgroundLoaded(e, via) \/ contentFetched(e, via))
                => /\ ev[e].lazyLoaded < MaxEvents
                        => ev'[e].lazyLoaded = ev[e].lazyLoaded + 1
                   /\ loadedClass \in Classes(e)'
                   /\ loadingClass \notin Classes(e)'
        /\ (imageFailed(e, via) \/ backgroundFailed(e, via) \/ contentFailed(e, via))
                => ev'[e].lazyLoaded = ev[e].lazyLoaded]_vars

\* C16: loadAll() covers every pending element: each element of the document
\* that carries loadingClass and has a payload when loadAll() is called has a
\* load under way, or has dropped loadingClass, when the call returns.
HasPayload(el) ==
    \/ el.tag = "IMG" /\ (Truthy(el.dataSrc) \/ Truthy(el.src))
    \/ el.tag = "DIV" /\ (Truthy(el.dataBg) \/ Truthy(el.dataLazy))
C16_LoadAllCoversPending ==
    [][loadAll =>
        \A e \in Elems :
            (dom[e].attached /\ loadingClass \in Classes(e) /\ HasPayload(dom[e]))
                => (InFlightCount(e)' > 0 \/ loadingClass \notin Classes(e)')]_vars

C19_OwnCounter ==
    [][\A e \in Elems, via \in Vias :
        (/\ ev[e].fails = 0
         /\ \/ imageFailed(e, via)
            \/ backgroundFailed(e, via)
            \/ contentFailed(e, via))
            => loadAttempts[AttemptKey(dom[e])] = 0]_vars

\* what a load may change on an element: its payload attributes and styles
PayloadAndStyle(el) ==
    <<el.src, el.srcset, el.sizes, el.dataSrc, el.dataSrcset, el.dataSizes,
      el.dataBg, el.dataLazy, el.backgroundImage, el.innerHTML, el.fade>>
\* a step of the load of e: a completion, a failure or a retry of it
LoadStep(e) ==
    \/ \E via \in Vias :
            \/ imageLoaded(e, via) \/ imageFailed(e, via)
            \/ backgroundLoaded(e, via) \/ backgroundFailed(e, via)
            \/ contentFetched(e, via) \/ contentFailed(e, via)
    \/ retryTimer(e)
Untouched(x) ==
    /\ Classes(x)' \cap MarkerClasses = Classes(x) \cap MarkerClasses
    /\ dom[x].attached => PayloadAndStyle(dom'[x]) = PayloadAndStyle(dom[x])

\* C20: a step of the load of e changes no marker class, payload attribute
\* or style of any other element.
C20_OnlyOwnElement ==
    [][\A e \in Elems : LoadStep(e) => \A x \in Elems \ {e} : Untouched(x)]_vars

\* C20 as amended: a step of the load of e changes no marker class, payload
\* attribute or style of any other element, except that a fragment load that
\* succeeds marks the lazy elements inside the content it injects with
\* loadingClass.
C20_OwnElementAndInjected ==
    [][/\ \A e \in Elems :
            LoadStep(e) =>
                \A x \in Elems \ {e} :
                    \/ Untouched(x)
                    \/ /\ \E via \in Vias : contentFetched(e, via)
                       /\ x \in Inside([dom |-> dom'], e)
                       /\ Classes(x)' \cap MarkerClasses \subseteq {loadingClass}
       /\ \A entries \in Batches(observed \cap Attached) :
            handleIntersection(entries) =>
                \A x \in Elems :
                    (\A i \in 1..Len(entries) : entries[i] # x) => Untouched(x)]_vars

\* a fragment was loaded beside a second element that is loaded too; the
\* image inside the injected content is marked loadingClass
C20_Witness ==
    /\ dom[FragmentHost].innerHTML = "html"
    /\ loadedClass \in Classes(FragmentHost)
    /\ loadingClass \in Classes(Nested)
    /\ loadedClass \in Classes("b")

\* C22: for each element at most one load or retry timer is outstanding: no
\* retry is scheduled while another retry of the element is scheduled or a
\* load of it is in flight.
C22_OneOutstanding ==
    \A e \in Elems : InFlightCount(e) + Len(timers[e]) <= 1

\* C23: while a load of an element is in flight or a retry of it is
\* scheduled, the element is not registered with the observer.
C23_LoadingNotRegistered ==
    \A e \in Elems :
        (InFlightCount(e) > 0 \/ timers[e] # <<>>) => e \notin observed

\* C24: no attempt counter ever exceeds retryAttempts, and when no load ever
\* succeeds the pipeline comes to rest: from some point on no retry is
\* scheduled and no load is in flight for any element.
C24_RetryingEnds ==
    /\ [](\A k \in Keys : loadAttempts[k] <= retryAttempts)
    /\ <>[]Quiet

\* an element used every retry it had and is at rest, marked errorClass
C24_Witness ==
    \E e \in Elems :
        /\ retryAttempts = MaxRetry
        /\ ev[e].fails >= MaxRetry
        /\ loadAttempts[UrlOf(e)] = retryAttempts
        /\ errorClass \in Classes(e)
        /\ Quiet

\* C25: when a fragment load succeeds, every lazy element inside the injected
\* content is registered and carries loadingClass, and the fragment element
\* carries loadedClass and has no data-lazy.
C25_FragmentLoaded ==
    [][\A e \in Elems, via \in Vias :
        contentFetched(e, via) =>
            /\ loadedClass \in Classes(e)'
            /\ dom'[e].dataLazy = Undef
            /\ \A x \in Inside([dom |-> dom'], e) :
                    Matches(dom'[x]) =>
                        (x \in observed' /\ loadingClass \in Classes(x)')]_vars

\* C26: a fragment fetch that fails leaves the element's content and data-lazy
\* as they were, adds no loadedClass and dispatches no lazyLoaded, and goes to
\* the retry policy: it is counted and retried, or marked errorClass.
C26_FetchFailure ==
    [][\A e \in Elems, via \in Vias :
        contentFailed(e, via) =>
            /\ dom'[e].innerHTML = dom[e].innerHTML
            /\ dom'[e].dataLazy = dom[e].dataLazy
            /\ loadedClass \in Classes(e)' => loadedClass \in Classes(e)
            /\ ev'[e].lazyLoaded = ev[e].lazyLoaded
            /\ \/ loadAttempts'[AttemptKey(dom[e])] > loadAttempts[AttemptKey(dom[e])]
               \/ errorClass \in Classes(e)']_vars

\* a fragment's fetch failed: its retry is scheduled, its data-lazy and its
\* empty content are in place
C26_Witness ==
    \E e \in Elems :
        /\ dom[e].dataLazy = UrlOf(e)
        /\ dom[e].innerHTML = ""
        /\ ev[e].fails = 1
        /\ timers[e] # <<>>
        /\ loadedClass \notin Classes(e)

C28_ScrollLockedWhileOpen ==
    (menu.isOpen \/ modal.isOpen) => body = "hidden"

\* C29: once every preload callback of the open image modal has fired, the
\* image shown is images[currentImageIndex] and the counter shows
\* currentImageIndex + 1, whatever navigations came before and whatever the
\* order of the callbacks; every image is taken to load.
C29_ShownIsCurrent ==
    (modal.isOpen /\ Outstanding(modal) = 0 /\ ~modal.failed) =>
        /\ modal.src = ImageSrc(modal.currentImageIndex)
        /\ modal.counter = modal.currentImageIndex + 1

C31_InvalidSubmitLeavesButton ==
    [][((\E via \in SubmitVias : submitEvent(via))
            /\ ~form.isSubmitting /\ ~validateForm(form))
        => /\ form'.inFlight = form.inFlight
           /\ form'.buttonText = form.buttonText
           /\ form'.disabled = form.disabled
           /\ form'.buttonClasses = form.buttonClasses]_vars

\* C32: every submit that passed validation ends with feedback: the success
\* message shown and formSubmitSuccess dispatched, or an error message shown
\* and formSubmitError dispatched, a response that is not ok included.
C32_SubmitEndsWithFeedback ==
    [][(\E outcome \in Outcomes : submitSettled(outcome))
        => \/ form'.shown = "success" /\ form'.event = "formSubmitSuccess"
           \/ form'.shown = "error" /\ form'.event = "formSubmitError"]_vars

\* getTotalElements()
getTotalElements ==
    Cardinality(images) + Cardinality(backgrounds) + Cardinality(content)

\* getStats(): the elements of the document carrying each class, and
\* Math.round of the percentage
getStats ==
    LET total == getTotalElements
        loaded == Cardinality({e \in Elems :
                        dom[e].attached /\ loadedClass \in dom[e].classList})
    IN  [total |-> total,
         loaded |-> loaded,
         errors |-> Cardinality({e \in Elems :
                        dom[e].attached /\ errorClass \in dom[e].classList}),
         pending |-> Cardinality({e \in Elems :
                        dom[e].attached /\ loadingClass \in dom[e].classList}),
         loadedPercentage |->
            IF total > 0 THEN (200 * loaded + total) \div (2 * total)
            ELSE 100]

\* C38: getStats() returns loaded <= total and a loadedPercentage between 0
\* and 100, after any loads, fragment insertions and refresh() calls.
C38_StatsInRange ==
    phase = "active" =>
        /\ getStats.loaded <= getStats.total
        /\ getStats.loadedPercentage \in 0 .. 100

\* C33: with the application running, one ArrowRight (ArrowLeft) key press
\* moves the banner's currentSlide forward (backward) by exactly one modulo
\* slides.length, wherever the focus is, the banner's container and an open
\* image modal included.
C33_ArrowMovesOne ==
    [][\A key \in {"ArrowLeft", "ArrowRight"} :
        (/\ keydown(key)
         /\ app.globalEvents /\ "bannerRotator" \in app.components
         /\ banner.slides > 0)
        => banner'.currentSlide =
              (banner.currentSlide
                + (IF key = "ArrowRight" THEN 1 ELSE banner.slides - 1))
              % banner.slides]_vars

\* C34: at most one autoplay interval exists at any time and one exists
\* exactly when isPlaying is true; after destroy() none exists, whatever
\* mouseleave and visibility notifications come later.
C34_OneInterval ==
    /\ banner.intervals <= 1
    /\ banner.intervals = 1 <=> banner.isPlaying
    /\ banner.destroyed => banner.intervals = 0

\* a banner that played, was destroyed and then got a mouseleave or a
\* visibility notification
C34_Witness ==
    /\ banner.destroyed
    /\ banner.notified >= 1
    /\ banner.autoPlay
    /\ banner.intervals = 0

\* C36: with once = true and no reset(), each element gets at most one
\* 'elementAnimated' event, whatever the intersections, animateNow,
\* animateAll, pause, resume, refresh and addElement calls.
C36_AnimatedOnce ==
    anim.once => \A e \in AnimElems : anim.events[e] <= 1

\* an animated element that resume() has put under observation again
C36_Witness ==
    \E e \in AnimElems :
        /\ anim.once
        /\ anim.events[e] = 1
        /\ e \in anim.animatedElements
        /\ e \in anim.observed

\* C35: the list rendered is the current page of the products whose name
\* contains the text in the search bar, whatever the case, after any search
\* input, added product, deleted product and page change; taken with every
\* request answered and for search input made with none unanswered.
C35_RenderedIsFilteredPage ==
    (Unanswered(dash) = 0 /\ ~dash.typedEarly) =>
        dash.rendered =
            slice(filterByName(dash.allProducts, dash.searchBar),
                  (dash.currentPage - 1) * itemsPerPage,
                  dash.currentPage * itemsPerPage)

\* C37: whenever the menu's isOpen is true its container does not carry the
\* class 'hidden', whatever open, close and toggle calls and hide timers of
\* earlier close() calls came before.
C37_OpenMenuShown == menu.isOpen => ~menu.hidden

\* the menu reopened while the hide timer of a close() is still to fire
C37_Witness ==
    /\ menu.isOpen
    /\ menu.hideTimers >= 1

====
